---- MODULE Spec2Model ----
(***************************************************************************)
(* Model of the Note Connections Analyzer plugin (src/main.ts).            *)
(*                                                                         *)
(* One run of the ribbon callback is a chain of continuations separated by *)
(* its awaits on host I/O: the document reads, the HTTP request, the body  *)
(* of the response, the creation of the report and the opening of it.      *)
(* Text is modelled as sequences of string tokens, a document body as a    *)
(* sequence of lines, so that template instantiation and name formatting   *)
(* are concatenations and not identities.                                  *)
(***************************************************************************)
EXTENDS Integers, Sequences, FiniteSets, TLC

\* ------------------------------------------------------------------ bounds
MaxNotes == 1
MaxRuns == 1
MaxNow == 2
TicksPerDay == 2
MaxCount == 3

\* --------------------------------------------------------------- constants
\* the argument of getRandomNotes in the ribbon callback
SampleCount == 10

Titles == <<"A", "B", "C", "D">>
\* values the settings text field can be given ("" is DEFAULT_SETTINGS.apiKey)
Keys == {"", "sk-1"}
DEFAULT_SETTINGS == [apiKey |-> ""]
\* Math.random() in tenths: 0.0, 0.5 and 0.9
RandomValues == {0, 5, 9}
\* HTTP statuses the transport can answer with
Statuses == {200, 301, 500}
\* what response.json() can yield for an ok response
Bodies == {"content", "noChoices", "notJson"}

VARIABLES
    settings,      \* this.settings
    savedData,     \* what saveData persisted last
    vault,         \* path -> body of every markdown document of the vault
    now,           \* the host clock, in ticks
    activeFile,    \* the document the workspace leaf shows (<<>>: none)
    pc,            \* run -> position of the ribbon callback
    checkedKey,    \* run -> the apiKey the callback tested at line 30
    asked,         \* run -> the count getRandomNotes was called with
    enumerated,    \* run -> const files of getRandomNotes
    notes,         \* run -> const notes
    noteContents,  \* run -> const noteContents
    request,       \* run -> the fetch issued
    response,      \* run -> status of the response (0: none)
    analysis,      \* run -> const response, the analysis text (<<>>: none)
    createArgs,    \* run -> arguments of the pending vault.create
    analysisNote,  \* run -> const analysisNote (<<>>: none)
    notices,       \* run -> texts of the notices shown, in order
    consoleErrors, \* run -> messages given to console.error
    calls          \* run -> host calls made, in order

\* the invocations of the ribbon callback
Runs == DOMAIN pc

vars == <<settings, savedData, vault, now, activeFile, pc, checkedKey, asked,
          enumerated, notes, noteContents, request, response, analysis, createArgs,
          analysisNote, notices, consoleErrors, calls>>

\* -------------------------------------------------------------- documents
NotePath(i) == <<Titles[i], ".md">>
NotePaths == {NotePath(i) : i \in 1..MaxNotes}
NoteBody(p) == << <<"text of ", p[1]>> >>

\* TFile.basename: the name without its extension
basename(path) == SubSeq(path, 1, Len(path) - 1)

RECURSIVE SetToSeq(_)
SetToSeq(S) ==
    IF S = {} THEN <<>>
    ELSE LET x == CHOOSE y \in S : TRUE IN <<x>> \o SetToSeq(S \ {x})

\* vault.getMarkdownFiles(): the documents in the host's own order
getMarkdownFiles(v) == SetToSeq(DOMAIN v)

Range(s) == {s[i] : i \in 1..Len(s)}
Min(a, b) == IF a < b THEN a ELSE b

\* ------------------------------------------------------------------ sampler
\* the comparator of line 72, () => 0.5 - Math.random(), in tenths
comparator(u) == 5 - u

\* comparator calls an insertion sort of n elements can make
MaxCompares(n) == (n * (n - 1)) \div 2
DrawsFor(n) == [1..MaxCompares(n) -> RandomValues]

\* Array.prototype.sort inserting x into the sorted prefix s: x sinks below
\* s[j] while the comparator answers > 0; every call takes the next draw.
\* The result is <<the new prefix, the next draw>>.
RECURSIVE Sink(_, _, _, _, _)
Sink(s, x, j, draws, k) ==
    IF j = 0 THEN << <<x>> \o s, k >>
    ELSE IF comparator(draws[k]) > 0 THEN Sink(s, x, j - 1, draws, k + 1)
    ELSE << SubSeq(s, 1, j) \o <<x>> \o SubSeq(s, j + 1, Len(s)), k + 1 >>

RECURSIVE SortFrom(_, _, _, _, _)
SortFrom(a, i, s, draws, k) ==
    IF i > Len(a) THEN s
    ELSE LET r == Sink(s, a[i], Len(s), draws, k)
         IN SortFrom(a, i + 1, r[1], draws, r[2])

\* files.sort(() => 0.5 - Math.random())
sort(a, draws) == SortFrom(a, 1, <<>>, draws, 1)

\* Array.prototype.slice(0, end) for end >= 0
slice(a, end) == SubSeq(a, 1, Min(end, Len(a)))

getRandomNotesNoSlice(files, count, draws) == sort(files, draws)

getRandomNotes(files, count, draws) ==
    LET shuffled == sort(files, draws)
    IN slice(shuffled, Min(count, Len(files)))

\* ------------------------------------------------------------ pure helpers
\* Array.prototype.join('\n') of texts, each a sequence of lines: the empty
\* array joins to the empty string, which is one empty line
RECURSIVE Concat(_)
Concat(ts) == IF ts = <<>> THEN <<>> ELSE Head(ts) \o Concat(Tail(ts))
join(ts) == IF ts = <<>> THEN << <<>> >> ELSE Concat(ts)

PromptHeader == <<"I am sending you ten random notes from my knowledge database. ...">>

\* the prompt template of lines 77-80
buildPrompt(contents) ==
    << PromptHeader, <<"Notes:">>, <<>> >>
    \o join([i \in 1..Len(contents) |->
              << <<"Note ", ToString(i), ":">> >> \o contents[i] \o << <<"---">> >>])

bullet(file) == <<"- [[">> \o basename(file) \o <<"]]">>

formatAnalysisNoBullets(files, text) ==
    << <<"# Note Connections Analysis">>, <<>>, <<"## Analyzed Notes">> >>
    \o << <<>>, <<"## Analysis">> >> \o text \o << <<>> >>

formatAnalysis(files, text) ==
    << <<"# Note Connections Analysis">>, <<>>, <<"## Analyzed Notes">> >>
    \o join([i \in 1..Len(files) |-> <<bullet(files[i])>>])
    \o << <<>>, <<"## Analysis">> >> \o text \o << <<>> >>

\* new Date().toISOString().split('T')[0] at clock t
isoDate(t) == ToString(t \div TicksPerDay)
reportName(t) == <<"Note Connections Analysis ", isoDate(t), ".md">>

\* Response.ok
ok(status) == status >= 200 /\ status <= 299

\* data.choices[0].message.content of a well-formed response
AnalysisText == << <<"Z">> >>

NoKeyNotice == <<"Please set your OpenAI API key in the plugin settings">>
NoNotesNotice == <<"No notes found in vault">>
AnalyzingNotice(n) == <<"Analyzing ", ToString(n), " notes...">>
ErrorNotice(msg) == <<"Error: ", msg>>

NoRequest == [key |-> "", prompt |-> <<>>]
NoArgs == [path |-> <<>>, data |-> <<>>]

\* Object.assign({}, DEFAULT_SETTINGS, await this.loadData())
loadSettings(data) ==
    [apiKey |-> IF "apiKey" \in DOMAIN data THEN data.apiKey
                ELSE DEFAULT_SETTINGS.apiKey]

\* -------------------------------------------------------------------- state
\* what loadData can return: a stored record (apiKey "" stands for no data)
StoredData == {[apiKey |-> k] : k \in Keys}

\* the state after onload, over a vault holding some of the documents docs,
\* with the clicks on the ribbon icon that are to come
InitOver(docs, runs) ==
    /\ savedData \in StoredData
    /\ settings = loadSettings(savedData)
    /\ \E S \in SUBSET DOMAIN docs : vault = [p \in S |-> docs[p]]
    /\ now = 0
    /\ activeFile = <<>>
    /\ pc = [r \in runs |-> "idle"]
    /\ checkedKey = [r \in runs |-> ""]
    /\ asked = [r \in runs |-> 0]
    /\ enumerated = [r \in runs |-> <<>>]
    /\ notes = [r \in runs |-> <<>>]
    /\ noteContents = [r \in runs |-> <<>>]
    /\ request = [r \in runs |-> NoRequest]
    /\ response = [r \in runs |-> 0]
    /\ analysis = [r \in runs |-> <<>>]
    /\ createArgs = [r \in runs |-> NoArgs]
    /\ analysisNote = [r \in runs |-> <<>>]
    /\ notices = [r \in runs |-> <<>>]
    /\ consoleErrors = [r \in runs |-> <<>>]
    /\ calls = [r \in runs |-> <<>>]

\* the notes of the user and the report an earlier run of day 0 left
Docs ==
    [p \in NotePaths \cup {reportName(0)} |->
       IF p \in NotePaths THEN NoteBody(p)
       ELSE formatAnalysis(<<NotePath(1)>>, << <<"Y">> >>)]

Init == InitOver(Docs, 1..MaxRuns)

\* ------------------------------------------------------------------ actions
\* the catch block of lines 60-63, without the console.error
CatchNoLog(r, msg) ==
    /\ pc' = [pc EXCEPT ![r] = "error"]
    /\ notices' = [notices EXCEPT ![r] = Append(@, ErrorNotice(msg))]
    /\ consoleErrors' = consoleErrors
    /\ calls' = [calls EXCEPT ![r] = @ \o <<"Notice">>]

\* the catch block of lines 60-63, without the notice
CatchSilent(r, msg) ==
    /\ pc' = [pc EXCEPT ![r] = "error"]
    /\ notices' = notices
    /\ consoleErrors' = [consoleErrors EXCEPT ![r] = Append(@, msg)]
    /\ calls' = [calls EXCEPT ![r] = @ \o <<"console.error">>]

\* the catch block of lines 60-63
Catch(r, msg) ==
    /\ pc' = [pc EXCEPT ![r] = "error"]
    /\ notices' = [notices EXCEPT ![r] = Append(@, ErrorNotice(msg))]
    /\ consoleErrors' = [consoleErrors EXCEPT ![r] = Append(@, msg)]
    /\ calls' = [calls EXCEPT ![r] = @ \o <<"Notice", "console.error">>]

\* the settings tab's onChange handler
SetApiKey(value) ==
    /\ settings' = [settings EXCEPT !.apiKey = value]
    /\ savedData' = settings'
    /\ UNCHANGED <<vault, now, activeFile, pc, checkedKey, asked, enumerated,
                   notes, noteContents, request, response, analysis, createArgs,
                   analysisNote, notices, consoleErrors, calls>>

\* the host clock advances
Tick ==
    /\ now < MaxNow
    /\ now' = now + 1
    /\ UNCHANGED <<settings, savedData, vault, activeFile, pc, checkedKey, asked,
                   enumerated, notes, noteContents, request, response, analysis,
                   createArgs, analysisNote, notices, consoleErrors, calls>>

\* lines 37-47 with the test of the sample left out
AfterSampleNoEmptyCheck(r, picked) ==
    /\ notices' = [notices EXCEPT ![r] = Append(@, AnalyzingNotice(Len(picked)))]
    /\ calls' = [calls EXCEPT ![r] = @ \o <<"getMarkdownFiles", "Notice">>
                                      \o [i \in 1..Len(picked) |-> "read"]]
    /\ pc' = [pc EXCEPT ![r] = "reading"]

\* lines 37-47: an empty sample ends the run with a notice; otherwise the
\* notice of the analysis is shown and every read is started
AfterSample(r, picked) ==
    IF Len(picked) = 0
    THEN /\ notices' = [notices EXCEPT ![r] = Append(@, NoNotesNotice)]
         /\ calls' = [calls EXCEPT ![r] = @ \o <<"getMarkdownFiles", "Notice">>]
         /\ pc' = [pc EXCEPT ![r] = "aborted"]
    ELSE /\ notices' = [notices EXCEPT ![r] = Append(@, AnalyzingNotice(Len(picked)))]
         /\ calls' = [calls EXCEPT ![r] = @ \o <<"getMarkdownFiles", "Notice">>
                                           \o [i \in 1..Len(picked) |-> "read"]]
         /\ pc' = [pc EXCEPT ![r] = "reading"]

\* lines 35-47: getRandomNotes(10) on the documents of the vault, under
\* every outcome of the comparator, and what follows it
SampleAndStart(r) ==
    LET files == getMarkdownFiles(vault) IN
    \E draws \in DrawsFor(Len(files)) :
      LET picked == getRandomNotes(files, SampleCount, draws) IN
        /\ asked' = [asked EXCEPT ![r] = SampleCount]
        /\ enumerated' = [enumerated EXCEPT ![r] = files]
        /\ notes' = [notes EXCEPT ![r] = picked]
        /\ AfterSample(r, picked)

\* the ribbon callback with the test of the key left out
TriggerNoKeyCheck(r) ==
    /\ pc[r] = "idle"
    /\ checkedKey' = [checkedKey EXCEPT ![r] = settings.apiKey]
    /\ SampleAndStart(r)
    /\ UNCHANGED <<settings, savedData, vault, now, activeFile, noteContents,
                   request, response, analysis, createArgs, analysisNote,
                   consoleErrors>>

\* the ribbon callback from the click to its first await on host I/O
\* (lines 28-47): the test of the key, then the sample and the reads
Trigger(r) ==
    /\ pc[r] = "idle"
    /\ checkedKey' = [checkedKey EXCEPT ![r] = settings.apiKey]
    /\ \/ /\ settings.apiKey = ""
          /\ notices' = [notices EXCEPT ![r] = Append(@, NoKeyNotice)]
          /\ calls' = [calls EXCEPT ![r] = @ \o <<"Notice">>]
          /\ pc' = [pc EXCEPT ![r] = "aborted"]
          /\ UNCHANGED <<asked, enumerated, notes>>
       \/ /\ settings.apiKey # ""
          /\ SampleAndStart(r)
    /\ UNCHANGED <<settings, savedData, vault, now, activeFile, noteContents,
                   request, response, analysis, createArgs, analysisNote,
                   consoleErrors>>

\* the reads settle, and the request carries the key tested at the click
ReadsSettledCheckedKey(r) ==
    /\ pc[r] = "reading"
    /\ \/ /\ Catch(r, "read failed")
          /\ UNCHANGED <<noteContents, request>>
       \/ LET contents == [i \in 1..Len(notes[r]) |-> vault[notes[r][i]]] IN
          /\ noteContents' = [noteContents EXCEPT ![r] = contents]
          /\ request' = [request EXCEPT ![r] =
                           [key |-> checkedKey[r], prompt |-> buildPrompt(contents)]]
          /\ calls' = [calls EXCEPT ![r] = Append(@, "fetch")]
          /\ pc' = [pc EXCEPT ![r] = "fetching"]
          /\ UNCHANGED <<notices, consoleErrors>>
    /\ UNCHANGED <<settings, savedData, vault, now, activeFile, checkedKey, asked,
                   enumerated, notes, response, analysis, createArgs, analysisNote>>

\* Promise.all over the reads settles (lines 45-47): a rejected read goes to
\* the catch block; otherwise analyzeWithGPT4 builds the prompt and issues
\* the fetch with the apiKey of this.settings (lines 77-96)
ReadsSettled(r) ==
    /\ pc[r] = "reading"
    /\ \/ /\ Catch(r, "read failed")
          /\ UNCHANGED <<noteContents, request>>
       \/ LET contents == [i \in 1..Len(notes[r]) |-> vault[notes[r][i]]] IN
          /\ noteContents' = [noteContents EXCEPT ![r] = contents]
          /\ request' = [request EXCEPT ![r] =
                           [key |-> settings.apiKey, prompt |-> buildPrompt(contents)]]
          /\ calls' = [calls EXCEPT ![r] = Append(@, "fetch")]
          /\ pc' = [pc EXCEPT ![r] = "fetching"]
          /\ UNCHANGED <<notices, consoleErrors>>
    /\ UNCHANGED <<settings, savedData, vault, now, activeFile, checkedKey, asked,
                   enumerated, notes, response, analysis, createArgs, analysisNote>>

\* the response arrives, and its status is not tested
FetchSettledNoCheck(r) ==
    /\ pc[r] = "fetching"
    /\ \/ /\ Catch(r, "Failed to fetch")
          /\ UNCHANGED response
       \/ \E status \in Statuses :
            /\ response' = [response EXCEPT ![r] = status]
            /\ calls' = [calls EXCEPT ![r] = Append(@, "json")]
            /\ pc' = [pc EXCEPT ![r] = "parsing"]
            /\ UNCHANGED <<notices, consoleErrors>>
    /\ UNCHANGED <<settings, savedData, vault, now, activeFile, checkedKey, asked,
                   enumerated, notes, noteContents, request, analysis, createArgs,
                   analysisNote>>

\* the fetch settles (lines 82-102): the transport fails, or it answers with
\* a status; a status that is not ok throws, an ok one starts response.json()
FetchSettled(r) ==
    /\ pc[r] = "fetching"
    /\ \/ /\ Catch(r, "Failed to fetch")
          /\ UNCHANGED response
       \/ \E status \in Statuses :
            /\ response' = [response EXCEPT ![r] = status]
            /\ IF ~ok(status)
               THEN Catch(r, "Failed to get response from GPT-4")
               ELSE /\ calls' = [calls EXCEPT ![r] = Append(@, "json")]
                    /\ pc' = [pc EXCEPT ![r] = "parsing"]
                    /\ UNCHANGED <<notices, consoleErrors>>
    /\ UNCHANGED <<settings, savedData, vault, now, activeFile, checkedKey, asked,
                   enumerated, notes, noteContents, request, analysis, createArgs,
                   analysisNote>>

\* response.json() settles (lines 102-55): the body is no JSON, or it lacks
\* choices[0].message.content, or analyzeWithGPT4 returns the content and the
\* callback calls vault.create with the name of the date and the report
JsonSettled(r) ==
    /\ pc[r] = "parsing"
    /\ \E body \in Bodies :
         \/ /\ body = "notJson"
            /\ Catch(r, "Unexpected end of JSON input")
            /\ UNCHANGED <<analysis, createArgs>>
         \/ /\ body = "noChoices"
            /\ Catch(r, "Cannot read properties of undefined")
            /\ UNCHANGED <<analysis, createArgs>>
         \/ /\ body = "content"
            /\ analysis' = [analysis EXCEPT ![r] = AnalysisText]
            /\ createArgs' = [createArgs EXCEPT ![r] =
                                [path |-> reportName(now),
                                 data |-> formatAnalysis(notes[r], AnalysisText)]]
            /\ calls' = [calls EXCEPT ![r] = Append(@, "create")]
            /\ pc' = [pc EXCEPT ![r] = "creating"]
            /\ UNCHANGED <<notices, consoleErrors>>
    /\ UNCHANGED <<settings, savedData, vault, now, activeFile, checkedKey, asked,
                   enumerated, notes, noteContents, request, response, analysisNote>>

\* the create settles, and an existing document is written over
CreateSettledOverwrite(r) ==
    /\ pc[r] = "creating"
    /\ \/ /\ Catch(r, "write failed")
          /\ UNCHANGED <<vault, analysisNote>>
       \/ /\ vault' = [p \in DOMAIN vault \cup {createArgs[r].path} |->
                         IF p = createArgs[r].path THEN createArgs[r].data
                         ELSE vault[p]]
          /\ analysisNote' = [analysisNote EXCEPT ![r] = createArgs[r].path]
          /\ calls' = [calls EXCEPT ![r] = Append(@, "openFile")]
          /\ pc' = [pc EXCEPT ![r] = "opening"]
          /\ UNCHANGED <<notices, consoleErrors>>
    /\ UNCHANGED <<settings, savedData, now, activeFile, checkedKey, asked,
                   enumerated, notes, noteContents, request, response, analysis,
                   createArgs>>

\* vault.create settles (lines 52-58): it rejects when a document of that
\* path exists or the write fails; otherwise the document is in the vault and
\* the callback asks the workspace to open it
CreateSettled(r) ==
    /\ pc[r] = "creating"
    /\ \/ /\ createArgs[r].path \in DOMAIN vault
          /\ Catch(r, "File already exists.")
          /\ UNCHANGED <<vault, analysisNote>>
       \/ /\ createArgs[r].path \notin DOMAIN vault
          /\ Catch(r, "write failed")
          /\ UNCHANGED <<vault, analysisNote>>
       \/ /\ createArgs[r].path \notin DOMAIN vault
          /\ vault' = [p \in DOMAIN vault \cup {createArgs[r].path} |->
                         IF p = createArgs[r].path THEN createArgs[r].data
                         ELSE vault[p]]
          /\ analysisNote' = [analysisNote EXCEPT ![r] = createArgs[r].path]
          /\ calls' = [calls EXCEPT ![r] = Append(@, "openFile")]
          /\ pc' = [pc EXCEPT ![r] = "opening"]
          /\ UNCHANGED <<notices, consoleErrors>>
    /\ UNCHANGED <<settings, savedData, now, activeFile, checkedKey, asked,
                   enumerated, notes, noteContents, request, response, analysis,
                   createArgs>>

\* openFile settles (lines 58-63): the leaf shows the report and the callback
\* returns, or the open rejects
OpenSettled(r) ==
    /\ pc[r] = "opening"
    /\ \/ /\ Catch(r, "open failed")
          /\ UNCHANGED activeFile
       \/ /\ activeFile' = analysisNote[r]
          /\ pc' = [pc EXCEPT ![r] = "done"]
          /\ UNCHANGED <<notices, consoleErrors, calls>>
    /\ UNCHANGED <<settings, savedData, vault, now, checkedKey, asked, enumerated,
                   notes, noteContents, request, response, analysis, createArgs,
                   analysisNote>>

Next ==
    \/ \E value \in Keys : SetApiKey(value)
    \/ Tick
    \/ \E r \in Runs : Trigger(r)
    \/ \E r \in Runs : ReadsSettled(r)
    \/ \E r \in Runs : FetchSettled(r)
    \/ \E r \in Runs : JsonSettled(r)
    \/ \E r \in Runs : CreateSettled(r)
    \/ \E r \in Runs : OpenSettled(r)

Spec == Init /\ [][Next]_vars

\* two clicks on the ribbon icon: runs that can overlap
OverlapInit == InitOver(Docs, {1, 2})
SpecOverlap == OverlapInit /\ [][Next]_vars

\* ------------------------------------------------- the sampler on its own
\* the notes of the user and the reports of earlier days
SamplerDocs ==
    [p \in NotePaths \cup {reportName(t) : t \in 0..MaxNow} |->
       IF p \in NotePaths THEN NoteBody(p)
       ELSE formatAnalysis(<<NotePath(1)>>, AnalysisText)]

SamplerInit == InitOver(SamplerDocs, {1})

\* getRandomNotes(count) on the documents of the vault
CallGetRandomNotes(r, count) ==
    /\ pc[r] = "idle"
    /\ LET files == getMarkdownFiles(vault) IN
       \E draws \in DrawsFor(Len(files)) :
         /\ asked' = [asked EXCEPT ![r] = count]
         /\ enumerated' = [enumerated EXCEPT ![r] = files]
         /\ notes' = [notes EXCEPT ![r] = getRandomNotes(files, count, draws)]
    /\ calls' = [calls EXCEPT ![r] = Append(@, "getMarkdownFiles")]
    /\ pc' = [pc EXCEPT ![r] = "sampled"]
    /\ UNCHANGED <<settings, savedData, vault, now, activeFile, checkedKey,
                   noteContents, request, response, analysis, createArgs,
                   analysisNote, notices, consoleErrors>>

SamplerNext == \E count \in 0..MaxCount : CallGetRandomNotes(1, count)

SpecSampler == SamplerInit /\ [][SamplerNext]_vars

\* --------------------------------------------------------------- properties
Count(seq, x) == Cardinality({i \in 1..Len(seq) : seq[i] = x})
Called(r, op) == op \in Range(calls[r])
Last(seq) == seq[Len(seq)]
Terminal == {"aborted", "done", "error"}
ErrorNotices(r) == {i \in 1..Len(notices[r]) : notices[r][i][1] = "Error: "}

\* a notice is the last thing the run did but for the console record
TerminalNotice(r) ==
    \E i \in 1..Len(calls[r]) :
      /\ calls[r][i] = "Notice"
      /\ \A j \in (i + 1)..Len(calls[r]) : calls[r][j] = "console.error"

\* C1: a run triggered with an empty apiKey has ended, has shown the one
\* notice asking for the key and has made no other host call: no document
\* enumerated or read, no request, no document created.
C1_EmptyKeyAborts ==
    \A r \in Runs :
      (pc[r] # "idle" /\ checkedKey[r] = "") =>
        /\ pc[r] = "aborted"
        /\ notices[r] = <<NoKeyNotice>>
        /\ calls[r] = <<"Notice">>
        /\ enumerated[r] = <<>> /\ noteContents[r] = <<>>
        /\ request[r] = NoRequest
        /\ analysisNote[r] = <<>>

C1_Witness ==
    \E r \in Runs : pc[r] = "aborted" /\ checkedKey[r] = "" /\ vault # <<>>

\* C2: a run triggered with a key over an empty document set gets the empty
\* sample and ends with the 'No notes found' notice, with no request issued
\* and no document created.
C2_EmptyVaultAborts ==
    \A r \in Runs :
      (pc[r] # "idle" /\ checkedKey[r] # "" /\ Len(enumerated[r]) = 0) =>
        /\ notes[r] = <<>>
        /\ pc[r] = "aborted"
        /\ notices[r] = <<NoNotesNotice>>
        /\ calls[r] = <<"getMarkdownFiles", "Notice">>
        /\ request[r] = NoRequest
        /\ analysisNote[r] = <<>>

C2_Witness ==
    \E r \in Runs :
      pc[r] = "aborted" /\ checkedKey[r] # "" /\ Len(enumerated[r]) = 0

\* the report body lists files as bullets, in order, then the analysis text
ListsThenText(data, files, text) ==
    LET n == Len(files) IN
      /\ Len(data) = n + Len(text) + 6
      /\ \A i \in 1..n : data[3 + i] = <<"- [[">> \o basename(files[i]) \o <<"]]">>
      /\ data[n + 5] = <<"## Analysis">>
      /\ SubSeq(data, n + 6, n + 5 + Len(text)) = text

\* a run that got a well-formed answer and whose create did not fail on I/O
AnsweredRun(r) ==
    /\ checkedKey[r] # "" /\ notes[r] # <<>>
    /\ ok(response[r]) /\ analysis[r] # <<>>
    /\ pc[r] \in {"done", "error"}
    /\ "write failed" \notin Range(consoleErrors[r])

\* C3 as stated: every run with a key, a non-empty sample and a successful
\* response has issued one request and created one new document.
C3_Original ==
    \A r \in Runs :
      AnsweredRun(r) => (Count(calls[r], "fetch") = 1 /\ analysisNote[r] # <<>>)

\* C3 as amended: a run with a key, a non-empty sample and a well-formed ok
\* response issues exactly one request and attempts exactly one create, for
\* the name of a date of the run and the body listing every sampled title as
\* a bullet before the analysis text; the document is created only if no
\* document of that name exists and the write succeeds, and is then new,
\* holds that body, came after the response and is opened only after it.
C3_OneReportIfNameFree ==
    \A r \in Runs :
      /\ analysis[r] # <<>> =>
            /\ checkedKey[r] # "" /\ notes[r] # <<>> /\ ok(response[r])
            /\ Count(calls[r], "fetch") = 1 /\ Count(calls[r], "create") = 1
            /\ \E t \in 0..now : createArgs[r].path =
                 <<"Note Connections Analysis ", ToString(t \div TicksPerDay), ".md">>
            /\ ListsThenText(createArgs[r].data, notes[r], analysis[r])
      /\ analysisNote[r] # <<>> =>
            /\ analysis[r] # <<>>
            /\ analysisNote[r] = createArgs[r].path
            /\ analysisNote[r] \notin Range(enumerated[r])
            /\ vault[analysisNote[r]] = createArgs[r].data
      /\ (AnsweredRun(r) /\ analysisNote[r] = <<>>) =>
            consoleErrors[r] = <<"File already exists.">>
      /\ Called(r, "openFile") => analysisNote[r] # <<>>
      /\ pc[r] = "done" =>
            (Count(calls[r], "openFile") = 1 /\ analysisNote[r] # <<>>)

C3_Witness ==
    \E r \in Runs :
      pc[r] = "done" /\ Len(notes[r]) >= 2 /\ activeFile = analysisNote[r]

\* C4: getRandomNotes returns min(count, M) documents, pairwise distinct,
\* each one of the M documents given, under every outcome of the comparator.
C4_SampleSize ==
    \A r \in Runs :
      pc[r] = "sampled" =>
        /\ Len(notes[r]) = Min(asked[r], Len(enumerated[r]))
        /\ \A i, j \in 1..Len(notes[r]) : notes[r][i] = notes[r][j] => i = j
        /\ Range(notes[r]) \subseteq Range(enumerated[r])
        /\ Range(enumerated[r]) = DOMAIN vault

C4_Witness ==
    \E r \in Runs :
      /\ pc[r] = "sampled" /\ asked[r] = 2 /\ Len(enumerated[r]) = 3
      /\ notes[r] = <<enumerated[r][3], enumerated[r][1]>>

\* C5: a response with a status outside 200..299 ends the run in the
\* request-failed error, with no analysis text, no create and no open.
C5_BadStatusFails ==
    \A r \in Runs :
      (response[r] # 0 /\ ~(response[r] >= 200 /\ response[r] < 300)) =>
        /\ pc[r] = "error"
        /\ consoleErrors[r] = <<"Failed to get response from GPT-4">>
        /\ Last(notices[r]) = ErrorNotice("Failed to get response from GPT-4")
        /\ analysis[r] = <<>> /\ analysisNote[r] = <<>>
        /\ ~Called(r, "create") /\ ~Called(r, "openFile")
        /\ Count(calls[r], "fetch") = 1

C5_Witness ==
    \E r \in Runs : response[r] = 301 /\ pc[r] = "error"

\* C6: a run ends in error exactly when one failure was caught, and then it
\* has shown exactly one error notice, carrying the failure's message, and
\* logged that one failure; nothing is retried: no run issues a second
\* request or attempts a second create.
C6_OneNoticePerFailure ==
    \A r \in Runs :
      /\ pc[r] \in {"idle", "reading", "fetching", "parsing", "creating",
                     "opening"} \cup Terminal
      /\ Count(calls[r], "fetch") <= 1
      /\ Count(calls[r], "create") <= 1
      /\ pc[r] = "error" <=> Len(consoleErrors[r]) = 1
      /\ Len(consoleErrors[r]) <= 1
      /\ Cardinality(ErrorNotices(r)) = Len(consoleErrors[r])
      /\ pc[r] = "error" =>
            /\ Last(notices[r]) = <<"Error: ", consoleErrors[r][1]>>
            /\ Count(calls[r], "console.error") = 1
            /\ Last(calls[r]) = "console.error"

C6_Witness ==
    \E r \in Runs :
      /\ consoleErrors[r] = <<"Cannot read properties of undefined">>
      /\ notices[r] = <<AnalyzingNotice(2),
                        ErrorNotice("Cannot read properties of undefined")>>

\* C7: no step changes or removes a document the vault holds, and a create
\* that settles for a name the vault holds ends the run in the error notice
\* with the vault as it was.
C7_CreateNeverOverwrites ==
    [][ /\ \A p \in DOMAIN vault : p \in DOMAIN vault' /\ vault'[p] = vault[p]
        /\ \A r \in Runs :
             (pc[r] = "creating" /\ pc'[r] # "creating"
                /\ createArgs[r].path \in DOMAIN vault) =>
               /\ vault' = vault
               /\ pc'[r] = "error"
               /\ notices'[r] = Append(notices[r], ErrorNotice("File already exists."))
      ]_vars

C7_Witness ==
    \E r \in Runs :
      /\ pc[r] = "error" /\ consoleErrors[r] = <<"File already exists.">>
      /\ vault[createArgs[r].path] = Docs[createArgs[r].path]
      /\ vault[createArgs[r].path] # createArgs[r].data

C9_Original ==
    \A r \in Runs : Called(r, "fetch") => request[r].key = checkedKey[r]

\* C9 as amended: a run reads the settings twice, at the trigger for the
\* test of the key and again when the request is built after the reads; the
\* request carries the apiKey stored at that later moment, whatever the
\* change handler wrote in between, and is never changed afterwards.
C9_KeyReadAtRequest ==
    [][ \A r \in Runs :
          /\ (pc[r] = "reading" /\ pc'[r] = "fetching") =>
                (request'[r].key = settings.apiKey /\ checkedKey[r] # "")
          /\ pc[r] # "reading" => request'[r] = request[r]
      ]_vars

C9_Witness ==
    \E r \in Runs :
      Called(r, "fetch") /\ checkedKey[r] = "sk-1" /\ request[r].key = ""

\* C10 as stated: a run in a terminal state has reported it by a notice.
C10_Original ==
    \A r \in Runs : pc[r] \in Terminal => TerminalNotice(r)

\* the steps of a run go forward only, and a terminal state is never left
Forward(r) ==
    /\ pc[r] = "idle" => pc'[r] \in {"idle", "aborted", "reading"}
    /\ pc[r] = "reading" => pc'[r] \in {"reading", "fetching", "error"}
    /\ pc[r] = "fetching" => pc'[r] \in {"fetching", "parsing", "error"}
    /\ pc[r] = "parsing" => pc'[r] \in {"parsing", "creating", "error"}
    /\ pc[r] = "creating" => pc'[r] \in {"creating", "opening", "error"}
    /\ pc[r] = "opening" => pc'[r] \in {"opening", "done", "error"}
    /\ pc[r] \in Terminal => (pc'[r] = pc[r] /\ calls'[r] = calls[r])

\* what the user was shown when the run ended
Reported(r) ==
    /\ pc[r] \in {"aborted", "error"} => TerminalNotice(r)
    /\ pc[r] = "done" =>
          /\ notices[r] = <<AnalyzingNotice(Len(notes[r]))>>
          /\ Last(calls[r]) = "openFile"
          /\ ~TerminalNotice(r)

\* C10 as amended: a triggered run leaves Idle, goes forward through the
\* running steps and, the host settling what the run awaits, reaches a
\* terminal state it never leaves; the abort and the Error ends are reported
\* by a notice, the Done end by none: its only notice is the 'Analyzing'
\* one shown before the reads, and its end shows as the opened report.
C10_TerminalReporting ==
    /\ [](\A r \in Runs : Reported(r))
    /\ [][\A r \in Runs : Forward(r)]_vars
    /\ \A r \in 1..MaxRuns :
         (pc[r] \notin {"idle"} \cup Terminal) ~> (pc[r] \in Terminal)

C10_Witness ==
    \E r \in Runs : pc[r] = "done" /\ notices[r] = <<AnalyzingNotice(2)>>

\* the host runs the continuation of every operation that settles, and
\* every awaited operation settles
FairSpec ==
    /\ Spec
    /\ \A r \in 1..MaxRuns :
         /\ WF_vars(ReadsSettled(r))
         /\ WF_vars(FetchSettled(r))
         /\ WF_vars(JsonSettled(r))
         /\ WF_vars(CreateSettled(r))
         /\ WF_vars(OpenSettled(r))
====
